---- MODULE Spec2Model ----
(***************************************************************************)
(* Model of app.py: the Streamlit script that encodes a URL as a QR code,  *)
(* overlays a round logo (generate_qr_code_with_logo), offers the image    *)
(* for download and, on request, uploads it into a new Google Doc          *)
(* (create_and_insert_qr_to_doc).                                          *)
(*                                                                         *)
(* Spec      the script: one action per statement group of the top-level   *)
(*           script and of the two functions, driven by the user's events. *)
(* SpecGeom  the compositor's geometry (thumbnail, mask, paste) on small   *)
(*           pixel canvases, inputs drawn from bounded sets.               *)
(***************************************************************************)
EXTENDS Integers, Sequences, FiniteSets, TLC

VARIABLES
    page_url,        \* st.text_input value: the byte length of the URL (0 = "")
    logo_file,       \* LOGO_FILE_NAME on disk: "absent", "corrupt" or [w, h]
    secrets,         \* st.secrets state: "ok", "no_section", "no_key", "bad_key"
    service_cached,  \* st.cache_resource holds the (docs, drive) services
    clicked,         \* st.button returns True in this run
    pc,              \* position of the script
    qr,              \* the QRCode object after make(): [version, data] or NoValue
    qr_img,          \* local qr_img of generate_qr_code_with_logo
    logo,            \* local logo (size of the opened / resized logo)
    qr_image_final,  \* module-level qr_image_final
    displayed,       \* image shown by st.image
    download_offer,  \* bytes behind st.download_button
    button_shown,    \* the "Créer un Google Docs" button is on the page
    upload_buffer,   \* upload_buffer handed to create_and_insert_qr_to_doc
    handed,          \* bytes the Drive upload read from the buffer
    remote,          \* remote calls of this invocation: <<step, "ok"|"fail">>
    image_id,        \* id returned by the Drive upload
    document_id,     \* id returned by documents().create
    messages,        \* st.error / st.warning / st.info / st.success / st.markdown
    raised,          \* exception that left the script uncaught
    trace,           \* pipeline stages performed in this run
    prev_offer,      \* download offered by the previous run: [url, bytes]
    g_pc,            \* SpecGeom: position in the compositor
    g_in,            \* SpecGeom: inputs [W, sw, sh, ratio, bg, fg]
    g_pre,           \* SpecGeom: canvas before the paste
    g_canvas,        \* SpecGeom: canvas (qr_img pixels)
    g_logo,          \* SpecGeom: resized logo [w, h]
    g_mask,          \* SpecGeom: mask pixels
    g_rounded,       \* SpecGeom: rounded_logo pixels [v, a]
    g_pos            \* SpecGeom: paste offset

scriptVars == <<page_url, logo_file, secrets, service_cached, clicked, pc, qr,
                qr_img, logo, qr_image_final, displayed, download_offer,
                button_shown, upload_buffer, handed, remote, image_id,
                document_id, messages, raised, trace, prev_offer>>

geomVars == <<g_pc, g_in, g_pre, g_canvas, g_logo, g_mask, g_rounded, g_pos>>

vars == <<scriptVars, geomVars>>

None == [kind |-> "none"]

Abs(n) == IF n < 0 THEN -n ELSE n

Max2(a, b) == IF a >= b THEN a ELSE b

Min2(a, b) == IF a <= b THEN a ELSE b

(***************************************************************************)
(* QR encoder (qrcode.QRCode, lines 20-27)                                 *)
(***************************************************************************)

\* Byte-mode capacity of versions 1..40 at ERROR_CORRECT_H.
CapacityH ==
    <<7, 14, 24, 34, 44, 58, 64, 84, 98, 119,
      137, 155, 177, 194, 220, 250, 280, 310, 338, 382,
      403, 439, 461, 511, 535, 593, 625, 658, 698, 742,
      790, 842, 898, 958, 983, 1051, 1093, 1139, 1219, 1273>>

MaxVersion == Len(CapacityH)

StartVersion == 1

BoxSize == 10

Border == 4

DefaultRatio == 25

\* make(fit=True): the first version >= start whose capacity holds the data;
\* 0 stands for DataOverflowError.
BestFitNoGrow(start, len) ==
    IF len <= CapacityH[start] THEN start ELSE 0

BestFit(start, len) ==
    IF \E v \in start..MaxVersion : len <= CapacityH[v]
    THEN CHOOSE v \in start..MaxVersion :
            /\ len <= CapacityH[v]
            /\ \A u \in start..(v - 1) : len > CapacityH[u]
    ELSE 0

\* modules_count of a version
ModulesCount(version) == 17 + 4 * version

\* make_image(...).convert("RGB"): the rendered canvas, no overlay
MakeImage(q) ==
    [kind    |-> "image",
     size    |-> (ModulesCount(q.version) + 2 * Border) * BoxSize,
     version |-> q.version,
     data    |-> q.data,
     overlay |-> None]

(***************************************************************************)
(* Logo compositor (lines 36-59)                                           *)
(***************************************************************************)

\* the return of the missing-logo branch (line 42)
MissingLogoReturnsNothing(img) == None

MissingLogoReturn(img) == img

\* int(qr_width * logo_size_ratio), the ratio in hundredths
TargetDim(dim, ratio) == (dim * ratio) \div 100

CeilDiv(a, b) == IF a % b = 0 THEN a \div b ELSE (a \div b) + 1

\* Image.thumbnail((x, y)) on a w x h image: the new size, or the exception
ThumbnailStretch(w, h, x, y) ==
    IF y = 0 THEN [kind |-> "ZeroDivisionError"]
    ELSE IF x = 0 THEN [kind |-> "ValueError"]
    ELSE [kind |-> "size", w |-> x, h |-> y]

Thumbnail(w, h, x, y) ==
    IF x >= w /\ y >= h THEN [kind |-> "size", w |-> w, h |-> h]
    ELSE IF y = 0 THEN [kind |-> "ZeroDivisionError"]
    ELSE IF x * h >= y * w
    THEN LET fl   == (y * w) \div h
             ce   == CeilDiv(y * w, h)
             pick == IF Abs(w * y - ce * h) < Abs(w * y - fl * h) THEN ce ELSE fl
         IN  [kind |-> "size", w |-> Max2(pick, 1), h |-> y]
    ELSE LET fl   == (x * h) \div w
             ce   == CeilDiv(x * h, w)
             pick == IF fl # 0 /\ Abs(w * ce - x * h) * fl < Abs(w * fl - x * h) * ce
                     THEN ce ELSE fl
         IN  IF x = 0 THEN [kind |-> "ValueError"]
             ELSE [kind |-> "size", w |-> x, h |-> Max2(pick, 1)]

\* pos (line 56), one axis
PosCeil(canvas, logodim) == CeilDiv(canvas - logodim, 2)

Pos(canvas, logodim) == (canvas - logodim) \div 2

\* qr_img.paste(rounded_logo, pos, rounded_logo) on the symbolic image
PasteOverlay(img, lg) ==
    [img EXCEPT !.overlay = [kind |-> "logo", w |-> lg.w, h |-> lg.h,
                             x |-> Pos(img.size, lg.w),
                             y |-> Pos(img.size, lg.h)]]

(***************************************************************************)
(* Serialization (lines 248-250 and 266-268)                               *)
(***************************************************************************)

\* Image.save(buffer, format): the encoded stream
SaveImage(img, format) ==
    <<format, "IHDR", img.size, img.size, "RGB", "IDAT",
      img.version, img.data, img.overlay>>

\* io.BytesIO() ; save ; seek(0)
DownloadBuffer(img) == [data |-> SaveImage(img, "PNG"), pos |-> 0]

UploadBufferJpeg(img) == [data |-> SaveImage(img, "JPEG"), pos |-> 0]

UploadBuffer(img) == [data |-> SaveImage(img, "PNG"), pos |-> 0]

NoBuffer == [data |-> <<>>, pos |-> 0]

\* st.download_button (getvalue) and MediaIoBaseUpload (seek(begin); read)
\* both read the stream from its start
ReadAll(buf) == buf.data

(***************************************************************************)
(* The script (lines 212-279) and the events that re-execute it            *)
(***************************************************************************)

\* URL lengths the user may type: empty, around the capacity of version 1,
\* "https://example.org", and around the capacity of the largest version
Overflow == 1

UrlLens ==
    {0, 1, CapacityH[StartVersion], CapacityH[StartVersion] + 1, 19}
        \cup (CapacityH[MaxVersion]..(CapacityH[MaxVersion] + Overflow))

\* sizes of the logo file when it is a readable image
LogoSizes == {<<512, 512>>, <<200, 100>>, <<60, 45>>, <<30, 50>>}

LogoFiles ==
    {[kind |-> "absent"], [kind |-> "corrupt"]}
        \cup {[kind |-> "image", w |-> s[1], h |-> s[2]] : s \in LogoSizes}

SecretStates == {"ok", "no_section", "no_key", "bad_key"}

\* the geometry variables are not used by the script
GeomIdle ==
    /\ g_pc = "off"
    /\ g_in = None
    /\ g_pre = <<>>
    /\ g_canvas = <<>>
    /\ g_logo = None
    /\ g_mask = <<>>
    /\ g_rounded = <<>>
    /\ g_pos = <<0, 0>>

\* the state a run of the script starts from: the page is emptied and the
\* script's names are unbound
FreshRun ==
    /\ qr' = None
    /\ qr_img' = None
    /\ logo' = None
    /\ qr_image_final' = None
    /\ displayed' = None
    /\ download_offer' = <<>>
    /\ button_shown' = FALSE
    /\ upload_buffer' = NoBuffer
    /\ handed' = <<>>
    /\ remote' = <<>>
    /\ image_id' = ""
    /\ document_id' = ""
    /\ messages' = <<>>
    /\ raised' = ""
    /\ trace' = <<>>
    /\ prev_offer' = IF download_offer # <<>>
                     THEN [url |-> page_url, bytes |-> download_offer]
                     ELSE prev_offer

Init ==
    /\ page_url = 0
    /\ logo_file \in LogoFiles
    /\ secrets \in SecretStates
    /\ service_cached = FALSE
    /\ clicked = FALSE
    /\ pc = "start"
    /\ qr = None
    /\ qr_img = None
    /\ logo = None
    /\ qr_image_final = None
    /\ displayed = None
    /\ download_offer = <<>>
    /\ button_shown = FALSE
    /\ upload_buffer = NoBuffer
    /\ handed = <<>>
    /\ remote = <<>>
    /\ image_id = ""
    /\ document_id = ""
    /\ messages = <<>>
    /\ raised = ""
    /\ trace = <<>>
    /\ prev_offer = [url |-> 0, bytes |-> <<>>]
    /\ GeomIdle

Say(kind, text) == messages' = Append(messages, <<kind, text>>)

Stage(name) == trace' = Append(trace, name)

\* an exception leaves the script: Streamlit shows it and the run ends
Abort(exc) ==
    /\ raised' = exc
    /\ pc' = "idle"

envVars == <<logo_file, secrets, geomVars>>

docVars == <<upload_buffer, handed, remote, image_id, document_id>>

\* --- user events: each one re-executes the script ---

\* the user types a URL into st.text_input (line 225)
EnterUrl(u) ==
    /\ pc = "idle"
    /\ u # page_url
    /\ page_url' = u
    /\ clicked' = FALSE
    /\ pc' = "start"
    /\ FreshRun
    /\ UNCHANGED <<envVars, service_cached>>

\* the user presses "Créer un Google Docs avec le QR Code" (line 261)
ClickButton ==
    /\ pc = "idle"
    /\ button_shown
    /\ clicked' = TRUE
    /\ pc' = "start"
    /\ FreshRun
    /\ UNCHANGED <<envVars, page_url, service_cached>>

\* the user presses the download button (line 252): the script runs again
ClickDownload ==
    /\ pc = "idle"
    /\ download_offer # <<>>
    /\ clicked' = FALSE
    /\ pc' = "start"
    /\ FreshRun
    /\ UNCHANGED <<envVars, page_url, service_cached>>

\* --- the script ---

\* line 230: if page_url: ... else: st.warning (line 276)
CheckUrl ==
    /\ pc = "start"
    /\ IF page_url # 0
       THEN /\ pc' = "encode"
            /\ Stage("payload")
            /\ UNCHANGED messages
       ELSE /\ pc' = "idle"
            /\ Say("warning", "EnterUrl")
            /\ UNCHANGED trace
    /\ UNCHANGED <<envVars, docVars, page_url, service_cached, clicked, qr,
                   qr_img, logo, qr_image_final, displayed, download_offer,
                   button_shown, raised, prev_offer>>

\* lines 20-27: QRCode(version=1, ERROR_CORRECT_H), add_data, make(fit=True)
Encode ==
    /\ pc = "encode"
    /\ LET v == BestFit(StartVersion, page_url)
       IN  IF v = 0
           THEN /\ Abort("DataOverflowError")
                /\ UNCHANGED <<qr, trace>>
           ELSE /\ qr' = [kind |-> "qr", version |-> v, data |-> page_url]
                /\ pc' = "render"
                /\ Stage("encode")
                /\ UNCHANGED raised
    /\ UNCHANGED <<envVars, docVars, page_url, service_cached, clicked,
                   qr_img, logo, qr_image_final, displayed, download_offer,
                   button_shown, messages, prev_offer>>

\* lines 29-30: make_image(...).convert("RGB")
Render ==
    /\ pc = "render"
    /\ qr_img' = MakeImage(qr)
    /\ pc' = "logo_check"
    /\ Stage("render")
    /\ UNCHANGED <<envVars, docVars, page_url, service_cached, clicked, qr,
                   logo, qr_image_final, displayed, download_offer,
                   button_shown, messages, raised, prev_offer>>

\* lines 36-42: if not os.path.exists(logo_path): st.error; return qr_img
LogoMissing ==
    /\ pc = "logo_check"
    /\ logo_file.kind = "absent"
    /\ Say("error", "LogoUnavailable")
    /\ qr_image_final' = MissingLogoReturn(qr_img)
    /\ pc' = "returned"
    /\ Stage("final")
    /\ UNCHANGED <<envVars, docVars, page_url, service_cached, clicked, qr,
                   qr_img, logo, displayed, download_offer, button_shown,
                   raised, prev_offer>>

\* line 44: Image.open(logo_path).convert("RGBA"); a file that is not an
\* image raises UnidentifiedImageError, which nothing catches
OpenLogo ==
    /\ pc = "logo_check"
    /\ logo_file.kind # "absent"
    /\ IF logo_file.kind = "corrupt"
       THEN /\ Abort("UnidentifiedImageError")
            /\ UNCHANGED logo
       ELSE /\ logo' = [kind |-> "size", w |-> logo_file.w, h |-> logo_file.h]
            /\ pc' = "thumbnail"
            /\ UNCHANGED raised
    /\ UNCHANGED <<envVars, docVars, page_url, service_cached, clicked, qr,
                   qr_img, qr_image_final, displayed, download_offer,
                   button_shown, messages, trace, prev_offer>>

\* lines 45-47: logo.thumbnail((int(w * ratio), int(h * ratio)), LANCZOS)
ResizeLogo ==
    /\ pc = "thumbnail"
    /\ LET t == Thumbnail(logo.w, logo.h,
                          TargetDim(qr_img.size, DefaultRatio),
                          TargetDim(qr_img.size, DefaultRatio))
       IN  IF t.kind = "size"
           THEN /\ logo' = t
                /\ pc' = "paste"
                /\ UNCHANGED raised
           ELSE /\ Abort(t.kind)
                /\ UNCHANGED logo
    /\ UNCHANGED <<envVars, docVars, page_url, service_cached, clicked, qr,
                   qr_img, qr_image_final, displayed, download_offer,
                   button_shown, messages, trace, prev_offer>>

\* lines 49-59: mask, rounded_logo, pos, paste, return qr_img
PasteLogo ==
    /\ pc = "paste"
    /\ qr_img' = PasteOverlay(qr_img, logo)
    /\ qr_image_final' = qr_img'
    /\ pc' = "returned"
    /\ trace' = trace \o <<"composite", "final">>
    /\ UNCHANGED <<envVars, docVars, page_url, service_cached, clicked, qr,
                   logo, displayed, download_offer, button_shown, messages,
                   raised, prev_offer>>

\* lines 238-239: if qr_image_final: st.image(...)
Display ==
    /\ pc = "returned"
    /\ IF qr_image_final # None
       THEN /\ displayed' = qr_image_final
            /\ pc' = "download"
       ELSE /\ pc' = "idle"
            /\ UNCHANGED displayed
    /\ UNCHANGED <<envVars, docVars, page_url, service_cached, clicked, qr,
                   qr_img, logo, qr_image_final, download_offer, button_shown,
                   messages, raised, trace, prev_offer>>

\* lines 246-258: download_buffer, save as PNG, seek(0), st.download_button
OfferDownload ==
    /\ pc = "download"
    /\ download_offer' = ReadAll(DownloadBuffer(qr_image_final))
    /\ Say("info", "DownloadHint")
    /\ Stage("serialize")
    /\ pc' = "button"
    /\ UNCHANGED <<envVars, docVars, page_url, service_cached, clicked, qr,
                   qr_img, logo, qr_image_final, displayed, button_shown,
                   raised, prev_offer>>

\* the value of st.button(...) in a run
ButtonAlways(c) == TRUE

ButtonPressed(c) == c

\* line 261: if st.button("Créer un Google Docs avec le QR Code")
CheckButton ==
    /\ pc = "button"
    /\ button_shown' = TRUE
    /\ pc' = IF ButtonPressed(clicked) THEN "get_service" ELSE "idle"
    /\ UNCHANGED <<envVars, docVars, page_url, service_cached, clicked, qr,
                   qr_img, logo, qr_image_final, displayed, download_offer,
                   messages, raised, trace, prev_offer>>

\* line 264 and lines 63-110: get_google_service() under st.cache_resource.
\* A missing section or key and unusable credentials end in st.stop();
\* an exception of build() is caught at lines 272-273.
GetService ==
    /\ pc = "get_service"
    /\ \/ /\ service_cached
          /\ pc' = "serialize_upload"
          /\ UNCHANGED <<service_cached, messages>>
       \/ /\ ~service_cached
          /\ secrets = "no_section"
          /\ Say("error", "SecretsSection")
          /\ pc' = "idle"
          /\ UNCHANGED service_cached
       \/ /\ ~service_cached
          /\ secrets = "no_key"
          /\ Say("error", "SecretsKey")
          /\ pc' = "idle"
          /\ UNCHANGED service_cached
       \/ /\ ~service_cached
          /\ secrets = "bad_key"
          /\ Say("error", "Credentials")
          /\ pc' = "idle"
          /\ UNCHANGED service_cached
       \/ /\ ~service_cached
          /\ secrets = "ok"
          /\ \E built \in BOOLEAN :
                IF built
                THEN /\ service_cached' = TRUE
                     /\ pc' = "serialize_upload"
                     /\ UNCHANGED messages
                ELSE /\ Say("error", "ServiceInit")
                     /\ pc' = "idle"
                     /\ UNCHANGED service_cached
    /\ UNCHANGED <<envVars, docVars, page_url, clicked, qr, qr_img, logo,
                   qr_image_final, displayed, download_offer, button_shown,
                   raised, trace, prev_offer>>

\* lines 266-268: upload_buffer, save as PNG, seek(0)
SerializeUpload ==
    /\ pc = "serialize_upload"
    /\ upload_buffer' = UploadBuffer(qr_image_final)
    /\ pc' = "upload"
    /\ UNCHANGED <<envVars, page_url, service_cached, clicked, qr, qr_img,
                   logo, qr_image_final, displayed, download_offer,
                   button_shown, handed, remote, image_id, document_id,
                   messages, raised, trace, prev_offer>>

(***************************************************************************)
(* create_and_insert_qr_to_doc (lines 113-209)                             *)
(***************************************************************************)

SayAll(ms) == messages' = messages \o ms

Called(step, ok) ==
    remote' = Append(remote, <<step, IF ok THEN "ok" ELSE "fail">>)

\* where a failed remote call leaves the function: the inner try of the
\* share step (lines 152-161) goes on, every other failure reaches the
\* except clause of lines 208-209, after which the function returns
AfterFailureAlwaysFatal(step) == "idle"

AfterFailure(step) == IF step = "share" THEN "insert" ELSE "idle"

\* what the handler of a failed call shows
FailureMessage(step) ==
    IF step = "share" THEN <<"warning", "ShareFailed">>
                      ELSE <<"error", "DocFailure">>

scriptLocals == <<page_url, service_cached, clicked, qr, qr_img, logo,
                  qr_image_final, displayed, download_offer, button_shown,
                  raised, trace, prev_offer>>

\* lines 124-128: MediaIoBaseUpload(qr_image_buffer); files().create()
Upload ==
    /\ pc = "upload"
    /\ handed' = ReadAll(upload_buffer)
    /\ \E ok \in BOOLEAN :
          /\ Called("upload", ok)
          /\ IF ok
             THEN /\ image_id' = "image"
                  /\ SayAll(<< <<"success", "Uploaded">> >>)
                  /\ pc' = "grant"
             ELSE /\ SayAll(<< FailureMessage("upload") >>)
                  /\ pc' = AfterFailure("upload")
                  /\ UNCHANGED image_id
    /\ UNCHANGED <<envVars, scriptLocals, upload_buffer, document_id>>

\* lines 132-137: permissions().create(fileId=image_id, anyone/reader)
Grant ==
    /\ pc = "grant"
    /\ \E ok \in BOOLEAN :
          /\ Called("grant", ok)
          /\ IF ok
             THEN /\ SayAll(<< <<"info", "Public">> >>)
                  /\ pc' = "create_doc"
             ELSE /\ SayAll(<< FailureMessage("grant") >>)
                  /\ pc' = AfterFailure("grant")
    /\ UNCHANGED <<envVars, scriptLocals, upload_buffer, handed, image_id,
                   document_id>>

\* lines 140-143: documents().create(body=doc_metadata)
CreateDoc ==
    /\ pc = "create_doc"
    /\ \E ok \in BOOLEAN :
          /\ Called("create_doc", ok)
          /\ IF ok
             THEN /\ document_id' = "document"
                  /\ SayAll(<< <<"success", "DocCreated">> >>)
                  /\ pc' = "share"
             ELSE /\ SayAll(<< FailureMessage("create_doc") >>)
                  /\ pc' = AfterFailure("create_doc")
                  /\ UNCHANGED document_id
    /\ UNCHANGED <<envVars, scriptLocals, upload_buffer, handed, image_id>>

\* lines 146-161: permissions().create(fileId=document_id, user/writer)
\* inside its own try
Share ==
    /\ pc = "share"
    /\ \E ok \in BOOLEAN :
          /\ Called("share", ok)
          /\ IF ok
             THEN /\ SayAll(<< <<"info", "Shared">> >>)
                  /\ pc' = "insert"
             ELSE /\ SayAll(<< FailureMessage("share") >>)
                  /\ pc' = AfterFailure("share")
    /\ UNCHANGED <<envVars, scriptLocals, upload_buffer, handed, image_id,
                   document_id>>

\* lines 164-206: documents().batchUpdate(insertInlineImage,
\* updateParagraphStyle), then the link to the document
Insert ==
    /\ pc = "insert"
    /\ \E ok \in BOOLEAN :
          /\ Called("insert", ok)
          /\ IF ok
             THEN SayAll(<< <<"info", "Inserting">>, <<"success", "Inserted">>,
                            <<"markdown", "DocLink">>, <<"info", "Centering">> >>)
             ELSE SayAll(<< <<"info", "Inserting">>, FailureMessage("insert") >>)
          /\ pc' = "idle"
    /\ UNCHANGED <<envVars, scriptLocals, upload_buffer, handed, image_id,
                   document_id>>

Next ==
    \/ \E u \in UrlLens : EnterUrl(u)
    \/ ClickButton
    \/ ClickDownload
    \/ CheckUrl
    \/ Encode
    \/ Render
    \/ LogoMissing
    \/ OpenLogo
    \/ ResizeLogo
    \/ PasteLogo
    \/ Display
    \/ OfferDownload
    \/ CheckButton
    \/ GetService
    \/ SerializeUpload
    \/ Upload
    \/ Grant
    \/ CreateDoc
    \/ Share
    \/ Insert

Spec == Init /\ [][Next]_vars

(***************************************************************************)
(* Properties of the script                                                *)
(***************************************************************************)

IsPrefix(s, t) == Len(s) <= Len(t) /\ \A i \in 1..Len(s) : s[i] = t[i]

Shown(kind, text) == \E i \in 1..Len(messages) : messages[i] = <<kind, text>>

Fits(len) == \E v \in StartVersion..MaxVersion : len <= CapacityH[v]

\* generate_qr_code_with_logo has returned or raised in this run
Composed == qr # None /\ pc \notin {"render", "logo_check", "thumbnail", "paste"}

StepOk(step) == \E i \in 1..Len(remote) : remote[i] = <<step, "ok">>

StepFailed(step) == \E i \in 1..Len(remote) : remote[i] = <<step, "fail">>

\* C1: with the logo file missing, generate_qr_code_with_logo raises nothing
\* and returns the rendered canvas as it was (the image of the no-logo
\* rendering), st.error reports the missing logo, and the script goes on to
\* display that image and to serialize it for download.
C1_MissingLogoDegrades ==
    (logo_file.kind = "absent" /\ Composed) =>
        /\ raised = ""
        /\ qr_image_final = MakeImage(qr)
        /\ qr_image_final.size = (ModulesCount(qr.version) + 2 * Border) * BoxSize
        /\ qr_image_final.overlay = None
        /\ Shown("error", "LogoUnavailable")
        /\ (pc # "returned" => displayed = MakeImage(qr))
        /\ (pc \notin {"returned", "download"} =>
               download_offer = SaveImage(MakeImage(qr), "PNG"))

C1_Witness ==
    /\ logo_file.kind = "absent"
    /\ pc = "idle"
    /\ displayed # None
    /\ download_offer # <<>>
    /\ Shown("error", "LogoUnavailable")

\* C2: with a logo file that exists but is not a readable image, composing
\* never raises: the bare QR image is returned with a LogoUnavailable signal
\* and the script continues.
C2_CorruptLogoDegrades ==
    (logo_file.kind = "corrupt" /\ Composed) =>
        /\ raised = ""
        /\ qr_image_final = MakeImage(qr)
        /\ Shown("error", "LogoUnavailable")

\* C6: a payload longer than the capacity of version 40 at level H ends the
\* run with DataOverflowError and no image is produced, displayed, offered
\* for download or handed to the upload; a payload that fits is never
\* rejected and gets the smallest version, from version 1 up, that holds it.
C6_Capacity ==
    /\ ~Fits(page_url) =>
          /\ qr = None /\ qr_img = None /\ qr_image_final = None
          /\ displayed = None /\ download_offer = <<>>
          /\ ~button_shown /\ upload_buffer = NoBuffer
          /\ handed = <<>> /\ remote = <<>>
          /\ pc \in {"start", "encode", "idle"}
          /\ (pc = "idle" => raised = "DataOverflowError")
    /\ (Fits(page_url) /\ page_url # 0) =>
          /\ raised # "DataOverflowError"
          /\ (pc \notin {"start", "encode"} => qr # None)
          /\ qr # None =>
                /\ qr.version \in StartVersion..MaxVersion
                /\ page_url <= CapacityH[qr.version]
                /\ \A u \in StartVersion..(qr.version - 1) : page_url > CapacityH[u]

C6_Witness ==
    /\ ~Fits(page_url)
    /\ pc = "idle"
    /\ raised = "DataOverflowError"
    /\ prev_offer.bytes # <<>>

StagesWithLogo ==
    <<"payload", "encode", "render", "composite", "final", "serialize">>

StagesNoLogo == <<"payload", "encode", "render", "final", "serialize">>

DocPcs == {"get_service", "serialize_upload", "upload", "grant", "create_doc",
           "share", "insert"}

\* C9: the stages of a run happen once each and in the order payload,
\* encode, render, composite, final image, serialization; the upload
\* function gets bytes only after the final image exists, only the PNG
\* stream of that image and only in a run started by the button; nothing is
\* handed over while generate_qr_code_with_logo runs; an empty URL reaches
\* neither the encoder nor the upload.
C9_PipelineOrder ==
    /\ IsPrefix(trace, StagesWithLogo) \/ IsPrefix(trace, StagesNoLogo)
    /\ (pc \in DocPcs \/ upload_buffer # NoBuffer \/ handed # <<>> \/ remote # <<>>) =>
          /\ clicked
          /\ qr_image_final # None
          /\ trace \in {StagesWithLogo, StagesNoLogo}
    /\ handed # <<>> => handed = SaveImage(qr_image_final, "PNG")
    /\ remote # <<>> => handed # <<>>
    /\ pc \in {"encode", "render", "logo_check", "thumbnail", "paste", "returned"} =>
          upload_buffer = NoBuffer /\ handed = <<>> /\ remote = <<>>
    /\ page_url = 0 =>
          qr = None /\ trace = <<>> /\ handed = <<>> /\ remote = <<>>

C9_Witness ==
    /\ pc = "idle"
    /\ clicked
    /\ handed # <<>>
    /\ StepOk("insert")
    /\ trace = StagesWithLogo

StepOrder == <<"upload", "grant", "create_doc", "share", "insert">>

\* C10: the remote calls are made in the order upload, public-read grant,
\* document creation, share, insertion; the insertion is attempted only
\* after upload, grant and creation succeeded; a failed share gives a
\* warning and the insertion is still attempted; any other failure ends the
\* calls, shows an error and no document link; no exception leaves the
\* function.
C10_RemoteOrder ==
    /\ Len(remote) <= Len(StepOrder)
    /\ \A i \in 1..Len(remote) : remote[i][1] = StepOrder[i]
    /\ \A i \in 1..(Len(remote) - 1) :
          remote[i][2] = "ok" \/ remote[i][1] = "share"
    /\ (StepOk("insert") \/ StepFailed("insert")) =>
          StepOk("upload") /\ StepOk("grant") /\ StepOk("create_doc")
    /\ StepFailed("share") =>
          /\ Shown("warning", "ShareFailed")
          /\ pc \in {"insert", "idle"}
          /\ pc = "idle" => Len(remote) = Len(StepOrder)
    /\ (\E st \in {"upload", "grant", "create_doc", "insert"} : StepFailed(st)) =>
          /\ pc = "idle"
          /\ Shown("error", "DocFailure")
          /\ ~Shown("markdown", "DocLink")
    /\ Shown("markdown", "DocLink") =>
          \A st \in {"upload", "grant", "create_doc", "insert"} : StepOk(st)
    /\ remote # <<>> => raised = ""

C10_Witness ==
    /\ StepFailed("share")
    /\ StepOk("insert")
    /\ Shown("markdown", "DocLink")
    /\ pc = "idle"

(***************************************************************************)
(* The compositor on pixels (lines 44-57)                                  *)
(***************************************************************************)

\* ImageDraw.ellipse, filled: the outline is traced in doubled coordinates
\* relative to the centre of the box, from (a, b % 2) towards (a % 2, b),
\* each step going to the neighbour nearest to the ellipse; a row is filled
\* between -r and r, r the abscissa at which the trace enters the row.
QuarterDelta(a, b, x, y) == Abs(a * a * y * y + b * b * x * x - a * a * b * b)

RECURSIVE QuarterReach(_, _, _, _, _)
QuarterReach(a, b, cx, cy, ty) ==
    IF cy >= ty \/ (cx = a % 2 /\ cy = b) THEN cx
    ELSE LET d1 == QuarterDelta(a, b, cx, cy + 2)
             d2 == QuarterDelta(a, b, cx - 2, cy + 2)
             d3 == QuarterDelta(a, b, cx - 2, cy)
             n1 == IF cx > 1 /\ d1 > d2 THEN <<cx - 2, cy + 2, d2>>
                                        ELSE <<cx, cy + 2, d1>>
             n2 == IF cx > 1 /\ n1[3] > d3 THEN <<cx - 2, cy>>
                                           ELSE <<n1[1], n1[2]>>
         IN  QuarterReach(a, b, n2[1], n2[2], ty)

\* draw_mask.ellipse((0, 0, w, h), fill=255): is pixel (x, y) of the w x h
\* mask inside the drawn ellipse
EllipseCovers(w, h, x, y) ==
    Abs(2 * x - w) <= QuarterReach(w, h, w, h % 2, Abs(2 * y - h))

Pixels(w, h) == (0..(w - 1)) \X (0..(h - 1))

\* lines 49-51: Image.new('L', logo.size, 0) and the ellipse
MakeMask(w, h) ==
    [p \in Pixels(w, h) |-> IF EllipseCovers(w, h, p[1], p[2]) THEN 255 ELSE 0]

\* the 8-bit blend of Image.paste with a mask
MulDiv255(a, b) == LET t == a * b + 128 IN ((t \div 256) + t) \div 256

Blend8(m, in1, in2) == MulDiv255(in1, 255 - m) + MulDiv255(in2, m)

\* lines 53-54: Image.new('RGBA', logo.size, (0, 0, 0, 0)) and
\* rounded_logo.paste(logo, (0, 0), mask); a pixel is [v: grey, a: alpha]
MakeRounded(lg, mask) ==
    [p \in DOMAIN mask |->
        [v |-> Blend8(mask[p], 0, lg[p].v), a |-> Blend8(mask[p], 0, lg[p].a)]]

\* line 57: qr_img.paste(rounded_logo, pos, rounded_logo) on an RGB canvas:
\* inside the box the alpha band of rounded_logo blends the pixel in
Paste(canvas, src, w, h, pos) ==
    [p \in DOMAIN canvas |->
        LET q == <<p[1] - pos[1], p[2] - pos[2]>>
        IN  IF q \in Pixels(w, h)
            THEN Blend8(src[q].a, canvas[p], src[q].v)
            ELSE canvas[p]]

\* bounds of the inputs
MinCanvas == 3

MaxCanvas == 8

MaxLogoSrc == 6

Ratios == {DefaultRatio, 50, 90}

CanvasPatterns == {"white", "checker"}

LogoPatterns == {"opaque", "holes"}

\* the rendered canvas: white, or modules of one pixel alternating
CanvasPixel(bg, x, y) ==
    IF bg = "checker" /\ (x + y) % 2 = 0 THEN 0 ELSE 255

\* the resized RGBA logo: a grey image, opaque or with transparent pixels
LogoPixel(fg, x, y) ==
    [v |-> 128, a |-> IF fg = "holes" /\ (x + y) % 3 = 0 THEN 0 ELSE 255]

ScriptIdle ==
    /\ page_url = 0
    /\ logo_file = [kind |-> "absent"]
    /\ secrets = "ok"
    /\ service_cached = FALSE
    /\ clicked = FALSE
    /\ pc = "off"
    /\ qr = None
    /\ qr_img = None
    /\ logo = None
    /\ qr_image_final = None
    /\ displayed = None
    /\ download_offer = <<>>
    /\ button_shown = FALSE
    /\ upload_buffer = NoBuffer
    /\ handed = <<>>
    /\ remote = <<>>
    /\ image_id = ""
    /\ document_id = ""
    /\ messages = <<>>
    /\ raised = ""
    /\ trace = <<>>
    /\ prev_offer = [url |-> 0, bytes |-> <<>>]

InitGeom ==
    /\ ScriptIdle
    /\ g_pc = "open"
    /\ g_in \in [W : MinCanvas..MaxCanvas, sw : 1..MaxLogoSrc, sh : 1..MaxLogoSrc,
                 ratio : Ratios, bg : CanvasPatterns, fg : LogoPatterns]
    /\ g_pre = <<>>
    /\ g_canvas = [p \in Pixels(g_in.W, g_in.W) |-> CanvasPixel(g_in.bg, p[1], p[2])]
    /\ g_logo = [kind |-> "size", w |-> g_in.sw, h |-> g_in.sh]
    /\ g_mask = <<>>
    /\ g_rounded = <<>>
    /\ g_pos = <<0, 0>>

\* lines 45-47
GeomThumbnail ==
    /\ g_pc = "open"
    /\ LET t == Thumbnail(g_logo.w, g_logo.h,
                          TargetDim(g_in.W, g_in.ratio),
                          TargetDim(g_in.W, g_in.ratio))
       IN  /\ g_logo' = t
           /\ g_pc' = IF t.kind = "size" THEN "mask" ELSE "raised"
    /\ UNCHANGED <<scriptVars, g_in, g_pre, g_canvas, g_mask, g_rounded, g_pos>>

\* lines 49-51
GeomMask ==
    /\ g_pc = "mask"
    /\ g_mask' = MakeMask(g_logo.w, g_logo.h)
    /\ g_pc' = "round"
    /\ UNCHANGED <<scriptVars, g_in, g_pre, g_canvas, g_logo, g_rounded, g_pos>>

\* lines 53-54
GeomRound ==
    /\ g_pc = "round"
    /\ g_rounded' = MakeRounded([p \in Pixels(g_logo.w, g_logo.h) |->
                                    LogoPixel(g_in.fg, p[1], p[2])], g_mask)
    /\ g_pc' = "paste"
    /\ UNCHANGED <<scriptVars, g_in, g_pre, g_canvas, g_logo, g_mask, g_pos>>

\* lines 56-57
GeomPaste ==
    /\ g_pc = "paste"
    /\ g_pos' = <<Pos(g_in.W, g_logo.w), Pos(g_in.W, g_logo.h)>>
    /\ g_pre' = g_canvas
    /\ g_canvas' = Paste(g_canvas, g_rounded, g_logo.w, g_logo.h, g_pos')
    /\ g_pc' = "done"
    /\ UNCHANGED <<scriptVars, g_in, g_logo, g_mask, g_rounded>>

NextGeom ==
    \/ GeomThumbnail
    \/ GeomMask
    \/ GeomRound
    \/ GeomPaste

SpecGeom == InitGeom /\ [][NextGeom]_vars

(***************************************************************************)
(* Properties of the compositor                                            *)
(***************************************************************************)

Target == TargetDim(g_in.W, g_in.ratio)

\* pixel (x, y) of a w x h box lies wholly outside the circle inscribed in
\* the box (diameter min(w, h), centred on the box): the point of the pixel
\* nearest to the centre is farther than the radius (doubled coordinates)
OutsideInscribedCircle(w, h, x, y) ==
    LET dx == Max2(Abs(2 * x + 1 - w) - 1, 0)
        dy == Max2(Abs(2 * y + 1 - h) - 1, 0)
        d  == Min2(w, h)
    IN  dx * dx + dy * dy > d * d

\* C3: after the paste, every canvas pixel outside the circle inscribed in
\* the resized logo's bounding box, and so every pixel outside that box, is
\* the pixel the canvas had before the paste.
C3_MaskContainment ==
    g_pc = "done" =>
        \A p \in DOMAIN g_canvas :
            LET q == <<p[1] - g_pos[1], p[2] - g_pos[2]>>
            IN  (q \notin Pixels(g_logo.w, g_logo.h)
                    \/ OutsideInscribedCircle(g_logo.w, g_logo.h, q[1], q[2]))
                => g_canvas[p] = g_pre[p]

\* C4: the logo is pasted at ((W - logo_w) // 2, (H - logo_h) // 2), floor
\* division; the offset is not negative and the logo lies inside the canvas;
\* the centre of the logo's box is within one pixel of the canvas centre in
\* each axis, whatever the parities of the canvas and logo sizes.
C4_Centering ==
    g_pc = "done" =>
        \A i \in {1, 2} :
            LET dim == IF i = 1 THEN g_logo.w ELSE g_logo.h
            IN  /\ 2 * g_pos[i] <= g_in.W - dim
                /\ g_in.W - dim < 2 * g_pos[i] + 2
                /\ g_pos[i] >= 0
                /\ g_pos[i] + dim <= g_in.W
                /\ Abs((2 * g_pos[i] + dim) - g_in.W) <= 2

C4_Witness ==
    /\ g_pc = "done"
    /\ (g_in.W - g_logo.w) % 2 = 1
    /\ (g_in.W - g_logo.h) % 2 = 0
    /\ g_in.W % 2 = 1
    /\ g_pos[1] > 0
    /\ g_canvas # g_pre

ResizeOk ==
    /\ g_logo.kind = "size"
    /\ g_logo.w >= 1 /\ g_logo.h >= 1
    /\ g_logo.w <= Target /\ g_logo.h <= Target
    /\ g_logo.w <= g_in.sw /\ g_logo.h <= g_in.sh
    /\ Abs(g_logo.w * g_in.sh - g_logo.h * g_in.sw) < Max2(g_in.sw, g_in.sh)
    /\ (g_in.sw > Target \/ g_in.sh > Target) =>
          /\ g_in.sw >= g_in.sh => g_logo.w = Target
          /\ g_in.sh >= g_in.sw => g_logo.h = Target
    /\ (g_in.sw <= Target /\ g_in.sh <= Target) =>
          g_logo.w = g_in.sw /\ g_logo.h = g_in.sh

====
